---- MODULE Spec2Model ----
(***************************************************************************)
(* Session lifecycle of the three voice features of ChatGPS:               *)
(*   LiveChat     src/components/LiveChat.tsx                              *)
(*   Transcriber  src/unnamed/part_000 (lines 138-279)                     *)
(*   Chat         src/components/Chat.tsx (dictation)                      *)
(*                                                                         *)
(* One component instance is mounted per behaviour (comp).  Every handler  *)
(* runs to completion (JavaScript run-to-completion); the only suspension  *)
(* points are the await of getUserMedia inside onopen and the pending      *)
(* promise returned by ai.live.connect.  That promise resolves in the      *)
(* microtasks that follow the opened event (connect awaits the open event, *)
(* sends the setup message and returns the session), so it is pending      *)
(* exactly until onopen has been invoked.  A .then callback registered on  *)
(* a resolved promise runs as a microtask, i.e. before any other event,    *)
(* and is therefore part of the step that registered it.                   *)
(*                                                                         *)
(* Every connect call creates a backend session s in 1..MaxSessions; the   *)
(* microphone stream, the capture AudioContext and the ScriptProcessor     *)
(* created by the onopen callback of session s carry the same index s.     *)
(* Refs hold 0 for null.  Text is a sequence of delta tokens, so string    *)
(* concatenation is \o.  lastStart tells whether the last step was a call  *)
(* of the start routine and, if so, whether its guard let it through.      *)
(***************************************************************************)
EXTENDS Integers, Sequences, FiniteSets, TLC

MaxSessions == 2
MaxMsgs == 1

Sessions == 1..MaxSessions
Components == {"LiveChat", "Transcriber", "Chat"}
Deltas == {"Hel", "lo"}
None == "-"
EmptyText == << >>
EmptyInterim == [user |-> EmptyText, model |-> EmptyText]

\* LiveServerMessage: optional inputTranscription, outputTranscription, turnComplete
Messages == [inp : Deltas \cup {None}, out : Deltas \cup {None}, tc : BOOLEAN]
\* a message that carries none of them
NoMsg == [inp |-> None, out |-> None, tc |-> FALSE]
\* a message without modelTurn audio
NoAudio == [kind |-> "none", dur |-> 0]

\* the accounts of the login page, null, and what getItem returns for a key
\* localStorage does not hold
Users == {"student", "teacher"}
NoUser == "null"
Absent == [present |-> FALSE, value |-> << >>]

VARIABLES
  comp, mounted,
  isConnecting, isActive, isRecording,
  transcription, currentInterim,
  transcriptionText, finalizedTranscription,
  input,
  sessionRef, streamRef, audioContextRef, scriptProcessorRef,
  nSess, conn, pc, mic, ctx, proc,
  capInterim, capTranscription,
  closeReq, closeCalls, pendClose, trackStops, procDisc, ctxCloses,
  nMsgs, lastStart,
  lastMsg,
  nextStartTime, currentTime, decoding, started, underrun,
  lastAudio,
  nFrames, sendLog, pendSend,
  currentUser, sessionUser, localStore, activeFeature,
  chatInst, nInst, messages, isLoading, inflight, nSends, lastOp,
  file, prompt, result, error, isLoadingMedia, analysis, nAnalyze, nCalls,
  apiKey, app

uiVars == <<isConnecting, isActive, isRecording>>
textVars == <<transcription, currentInterim, transcriptionText, finalizedTranscription, input>>
refVars == <<sessionRef, streamRef, audioContextRef, scriptProcessorRef>>
backendVars == <<nSess, conn, capInterim, capTranscription>>
resVars == <<mic, ctx, proc>>
callVars == <<closeReq, closeCalls, pendClose, trackStops, procDisc, ctxCloses>>
\* playback of the first LiveChat session: the cursor and the output context
\* of its startConversation closure, the handlers suspended at the decode
\* await, and the buffer sources started so far
playVars == <<nextStartTime, currentTime, decoding, started, underrun>>
\* lastMsg is the message the last onmessage call of the transcript
\* specification received
\* lastAudio is the audio payload of the last LiveChat message
\* capture: the frames the audio callbacks have produced, the
\* sendRealtimeInput calls made on each session and the ones still chained
\* on its pending promise
captureVars == <<nFrames, sendLog, pendSend>>
\* App and Chat: the logged-in user (state and sessionStorage), localStorage,
\* the feature shown, the mounted Chat instance with its message list and
\* loading flag, the generateText calls that have not settled, the number of
\* accepted sends and the last operation of App or Chat that ran
chatVars == <<currentUser, sessionUser, localStore, activeFeature, chatInst, nInst,
              messages, isLoading, inflight, nSends, lastOp>>
\* MediaAnalyzer: its state (isLoadingMedia is its isLoading), the progress of
\* every accepted handleAnalyze call, their number and the number of
\* generateTextAndImage / generateTextAndVideo calls issued
mediaVars == <<file, prompt, result, error, isLoadingMedia, analysis, nAnalyze, nCalls>>
\* whether process.env.API_KEY is set, and how far the page has got: its
\* modules are being evaluated, App is rendered, or the evaluation threw
bootVars == <<apiKey, app>>
\* the state outside the voice components
appVars == <<chatVars, mediaVars, bootVars>>
sideVars == <<lastAudio, captureVars, appVars>>
extVars == <<lastMsg, playVars, sideVars>>
lifecycleVars == <<comp, mounted, uiVars, textVars, refVars, backendVars, pc, resVars, callVars, nMsgs>>
vars == <<lifecycleVars, lastStart, extVars>>

Inc(n) == IF n < 2 THEN n + 1 ELSE 2

InitMounted(m) ==
  /\ comp \in Components
  /\ mounted = m
  /\ isConnecting = FALSE
  /\ isActive = FALSE
  /\ isRecording = FALSE
  /\ transcription = << >>
  /\ currentInterim = EmptyInterim
  /\ transcriptionText = EmptyText
  /\ finalizedTranscription = EmptyText
  /\ input = EmptyText
  /\ sessionRef = 0
  /\ streamRef = 0
  /\ audioContextRef = 0
  /\ scriptProcessorRef = 0
  /\ nSess = 0
  /\ conn = [s \in Sessions |-> "none"]
  /\ pc = [s \in Sessions |-> "none"]
  /\ mic = [s \in Sessions |-> "none"]
  /\ ctx = [s \in Sessions |-> "none"]
  /\ proc = [s \in Sessions |-> "none"]
  /\ capInterim = [s \in Sessions |-> EmptyInterim]
  /\ capTranscription = [s \in Sessions |-> EmptyText]
  /\ closeReq = [s \in Sessions |-> 0]
  /\ closeCalls = [s \in Sessions |-> 0]
  /\ pendClose = [s \in Sessions |-> 0]
  /\ trackStops = [s \in Sessions |-> 0]
  /\ procDisc = [s \in Sessions |-> 0]
  /\ ctxCloses = [s \in Sessions |-> 0]
  /\ nMsgs = 0
  /\ lastStart = "none"
  /\ lastMsg = NoMsg
  /\ nextStartTime = 0
  /\ currentTime = 0
  /\ decoding = << >>
  /\ started = << >>
  /\ underrun = FALSE
  /\ lastAudio = NoAudio
  /\ nFrames = 0
  /\ sendLog = [s \in Sessions |-> << >>]
  /\ pendSend = [s \in Sessions |-> << >>]
  /\ currentUser = NoUser
  /\ sessionUser = NoUser
  /\ localStore = [k \in {<<"chatgps-chat-history-", u>> : u \in Users} |-> Absent]
  /\ chatInst = 0
  /\ nInst = 0
  /\ messages = << >>
  /\ isLoading = FALSE
  /\ inflight = {}
  /\ activeFeature = "chat"
  /\ nSends = 0
  /\ lastOp = "none"
  /\ file = "none"
  /\ prompt = EmptyText
  /\ result = ""
  /\ error = ""
  /\ isLoadingMedia = FALSE
  /\ analysis = << >>
  /\ nAnalyze = 0
  /\ nCalls = 0

\* the modules of the page have been evaluated and App is rendered
AppRendered == app = "running"

\* the credential is set and the page is up
Booted == apiKey = TRUE /\ AppRendered

\* the lifecycle specifications start with the component under study on screen
Init == InitMounted(TRUE) /\ Booted

\* React drops state updates of an unmounted component
SetState(old, new, eff) == IF eff THEN new ELSE old

(***************************************************************************)
(* Teardown of the refs: the four guarded releases every stop routine      *)
(* starts with.                                                            *)
(***************************************************************************)
\* a stop routine that forgets to clear sessionRef
SessionRefKept == sessionRef

SessionRefAfterStop == 0
StreamRefAfterStop == 0
ScriptProcessorRefAfterStop == 0

\* the promise held in sessionRef is resolved once onopen has been invoked
Resolved(s) == pc[s] # "none"

\* LiveChat.tsx:70.  AudioContext.close() sets the control thread state, which
\* the state attribute returns, to "closed" before it returns (Web Audio API,
\* AudioContext.close(), step 4), so the guard already fails for the next stop.
ContextOpen == audioContextRef # 0 /\ ctx[audioContextRef] # "closed"

ReleaseRefs ==
  /\ IF sessionRef # 0
       THEN /\ closeReq' = [closeReq EXCEPT ![sessionRef] = Inc(@)]
            /\ IF Resolved(sessionRef)
                 THEN /\ closeCalls' = [closeCalls EXCEPT ![sessionRef] = Inc(@)]
                      /\ pendClose' = pendClose
                 ELSE /\ pendClose' = [pendClose EXCEPT ![sessionRef] = Inc(@)]
                      /\ closeCalls' = closeCalls
            /\ sessionRef' = SessionRefAfterStop
       ELSE UNCHANGED <<closeReq, closeCalls, pendClose, sessionRef>>
  /\ IF streamRef # 0
       THEN /\ mic' = [mic EXCEPT ![streamRef] = "stopped"]
            /\ trackStops' = [trackStops EXCEPT ![streamRef] = Inc(@)]
            /\ streamRef' = StreamRefAfterStop
       ELSE UNCHANGED <<mic, trackStops, streamRef>>
  /\ IF scriptProcessorRef # 0
       THEN /\ proc' = [proc EXCEPT ![scriptProcessorRef] = "disconnected"]
            /\ procDisc' = [procDisc EXCEPT ![scriptProcessorRef] = Inc(@)]
            /\ scriptProcessorRef' = ScriptProcessorRefAfterStop
       ELSE UNCHANGED <<proc, procDisc, scriptProcessorRef>>
  /\ IF ContextOpen
       THEN /\ ctx' = [ctx EXCEPT ![audioContextRef] = "closed"]
            /\ ctxCloses' = [ctxCloses EXCEPT ![audioContextRef] = Inc(@)]
       ELSE UNCHANGED <<ctx, ctxCloses>>
  /\ audioContextRef' = audioContextRef

\* a stop routine that clears the transcript log
LogClearedByStop == << >>

\* LiveChat.tsx:57-75: stopConversation has no setTranscription call
LogAfterStop == transcription

\* LiveChat.stopConversation
stopConversation(eff) ==
  /\ ReleaseRefs
  /\ isActive' = SetState(isActive, FALSE, eff)
  /\ isConnecting' = SetState(isConnecting, FALSE, eff)
  /\ transcription' = SetState(transcription, LogAfterStop, eff)
  /\ UNCHANGED <<isRecording, currentInterim, transcriptionText, finalizedTranscription, input>>

\* Transcriber.stopTranscription; t is the transcription value its closure captured
stopTranscription(t, eff) ==
  /\ ReleaseRefs
  /\ isRecording' = SetState(isRecording, FALSE, eff)
  /\ finalizedTranscription' = SetState(finalizedTranscription, finalizedTranscription \o t, eff)
  /\ transcriptionText' = SetState(transcriptionText, EmptyText, eff)
  /\ UNCHANGED <<isConnecting, isActive, transcription, currentInterim, input>>

\* Chat.stopRecording
stopRecording(eff) ==
  /\ ReleaseRefs
  /\ isRecording' = SetState(isRecording, FALSE, eff)
  /\ UNCHANGED <<isConnecting, isActive, textVars>>

(***************************************************************************)
(* start: ai.live.connect creates the next backend session and the         *)
(* callbacks registered with it capture the state of the calling render.   *)
(***************************************************************************)
Connect ==
  /\ nSess < MaxSessions
  /\ nSess' = nSess + 1
  /\ conn' = [conn EXCEPT ![nSess + 1] = "connecting"]
  /\ capInterim' = [capInterim EXCEPT ![nSess + 1] = currentInterim]
  /\ capTranscription' = [capTranscription EXCEPT ![nSess + 1] = transcriptionText]
  /\ sessionRef' = nSess + 1

\* a guard that only looks at isActive
startConversationGuardActiveOnly == isActive

\* LiveChat.tsx:78  if (isActive || isConnecting) return;
startConversationGuard == isActive \/ isConnecting

\* part_000:184  if (isRecording) return;
startTranscriptionGuard == isRecording

\* LiveChat.startConversation; throws: the client or the output context constructor throws
startConversation(throws) ==
  /\ comp = "LiveChat"
  /\ mounted
  /\ IF startConversationGuard
       THEN /\ lastStart' = "rejected"
            /\ UNCHANGED <<uiVars, textVars, refVars, backendVars>>
       ELSE /\ transcription' = << >>
            /\ currentInterim' = EmptyInterim
            /\ UNCHANGED <<isActive, isRecording, transcriptionText, finalizedTranscription, input>>
            /\ UNCHANGED <<streamRef, audioContextRef, scriptProcessorRef>>
            /\ IF throws
                 THEN /\ isConnecting' = FALSE
                      /\ lastStart' = "accepted"
                      /\ UNCHANGED <<sessionRef, backendVars>>
                 ELSE /\ isConnecting' = TRUE
                      /\ Connect
                      /\ lastStart' = "accepted"
  /\ UNCHANGED <<comp, mounted, pc, resVars, callVars, nMsgs>>
  /\ UNCHANGED extVars

\* Transcriber.startTranscription
startTranscription(throws) ==
  /\ comp = "Transcriber"
  /\ mounted
  /\ IF startTranscriptionGuard
       THEN /\ lastStart' = "rejected"
            /\ UNCHANGED <<uiVars, refVars, backendVars>>
       ELSE /\ UNCHANGED <<isConnecting, isActive>>
            /\ UNCHANGED <<streamRef, audioContextRef, scriptProcessorRef>>
            /\ IF throws
                 THEN /\ isRecording' = FALSE
                      /\ lastStart' = "accepted"
                      /\ UNCHANGED <<sessionRef, backendVars>>
                 ELSE /\ isRecording' = isRecording
                      /\ Connect
                      /\ lastStart' = "accepted"
  /\ UNCHANGED <<comp, mounted, textVars, pc, resVars, callVars, nMsgs>>
  /\ UNCHANGED extVars

\* Chat.startRecording
startRecording(throws) ==
  /\ input' = EmptyText
  /\ UNCHANGED <<isConnecting, isActive>>
  /\ UNCHANGED <<transcription, currentInterim, transcriptionText, finalizedTranscription>>
  /\ UNCHANGED <<streamRef, audioContextRef, scriptProcessorRef>>
  /\ IF throws
       THEN /\ isRecording' = FALSE
            /\ lastStart' = "accepted"
            /\ UNCHANGED <<sessionRef, backendVars>>
       ELSE /\ isRecording' = isRecording
            /\ Connect
            /\ lastStart' = "accepted"
  /\ UNCHANGED <<resVars, callVars>>

\* Chat.handleMicClick
handleMicClick(throws) ==
  /\ comp = "Chat"
  /\ mounted
  /\ IF isRecording
       THEN /\ ~throws
            /\ lastStart' = "none"
            /\ stopRecording(TRUE)
            /\ UNCHANGED backendVars
       ELSE startRecording(throws)
  /\ UNCHANGED <<comp, mounted, pc, nMsgs>>
  /\ UNCHANGED extVars

(***************************************************************************)
(* The start/stop button: onClick = active ? stop : start.                 *)
(***************************************************************************)
\* LiveChat.tsx:179-180, the button is disabled while connecting
StopButtonLive ==
  /\ comp = "LiveChat"
  /\ mounted
  /\ isActive
  /\ ~isConnecting
  /\ lastStart' = "none"
  /\ stopConversation(TRUE)
  /\ UNCHANGED <<comp, mounted, backendVars, pc, nMsgs>>
  /\ UNCHANGED extVars

\* part_000:259, the button calls the stopTranscription of the current render
StopButtonTranscriber ==
  /\ comp = "Transcriber"
  /\ mounted
  /\ isRecording
  /\ lastStart' = "none"
  /\ stopTranscription(transcriptionText, TRUE)
  /\ UNCHANGED <<comp, mounted, backendVars, pc, nMsgs>>
  /\ UNCHANGED extVars

(***************************************************************************)
(* useEffect cleanup: runs the stop routine of the render that registered  *)
(* the effect; the state updates it issues reach no mounted component.     *)
(***************************************************************************)
Unmount ==
  /\ mounted
  /\ mounted' = FALSE
  /\ lastStart' = "none"
  /\ CASE comp = "LiveChat" -> stopConversation(FALSE)
       [] comp = "Transcriber" -> stopTranscription(EmptyText, FALSE)
       [] comp = "Chat" -> stopRecording(FALSE)
  /\ UNCHANGED <<comp, backendVars, pc, nMsgs>>
  /\ UNCHANGED extVars

(***************************************************************************)
(* Backend callbacks of session s.  The stream is a WebSocket: it opens at  *)
(* most once, reports an error at most once, delivers nothing after an     *)
(* error except the closed event, and nothing after the closed event.      *)
(***************************************************************************)
\* onopen up to its await: requests the microphone; then the connect promise
\* resolves and the close callbacks chained on it while it was pending run
onopenBody(s) ==
  /\ conn[s] = "connecting"
  /\ conn' = [conn EXCEPT ![s] = "open"]
  /\ pc' = [pc EXCEPT ![s] = "awaitMic"]
  /\ closeCalls' = [closeCalls EXCEPT ![s] = IF pendClose[s] > 0 THEN Inc(@) ELSE @]
  /\ pendClose' = [pendClose EXCEPT ![s] = 0]
  /\ lastStart' = "none"
  /\ UNCHANGED <<comp, mounted, uiVars, textVars, refVars, nSess, capInterim, capTranscription,
                 resVars, closeReq, trackStops, procDisc, ctxCloses, nMsgs>>

onopen(s) ==
  /\ onopenBody(s)
  /\ UNCHANGED extVars

\* the state updates at the end of onopen
onopenSetState ==
  /\ isConnecting' = SetState(isConnecting, FALSE, mounted /\ comp = "LiveChat")
  /\ isActive' = SetState(isActive, TRUE, mounted /\ comp = "LiveChat")
  /\ isRecording' = SetState(isRecording, TRUE, mounted /\ comp # "LiveChat")

\* getUserMedia resolves: the rest of onopen wires the capture graph
onopenGranted(s) ==
  /\ pc[s] = "awaitMic"
  /\ pc' = [pc EXCEPT ![s] = "done"]
  /\ mic' = [mic EXCEPT ![s] = "live"]
  /\ streamRef' = s
  /\ ctx' = [ctx EXCEPT ![s] = "running"]
  /\ audioContextRef' = s
  /\ proc' = [proc EXCEPT ![s] = "connected"]
  /\ scriptProcessorRef' = s
  /\ onopenSetState
  /\ lastStart' = "none"
  /\ UNCHANGED <<comp, mounted, textVars, sessionRef, backendVars, callVars, nMsgs>>
  /\ UNCHANGED extVars

\* getUserMedia rejects: the promise of the async onopen rejects and nobody handles it
onopenDenied(s) ==
  /\ pc[s] = "awaitMic"
  /\ pc' = [pc EXCEPT ![s] = "failed"]
  /\ lastStart' = "none"
  /\ UNCHANGED <<comp, mounted, uiVars, textVars, refVars, backendVars, resVars, callVars, nMsgs>>
  /\ UNCHANGED extVars

\* an update that replaces the text by the delta
CatReplace(t, d) == IF d = None THEN t ELSE <<d>>

\* prev + text, for the optional part d of a message
Cat(t, d) == IF d = None THEN t ELSE Append(t, d)

\* a turn boundary that leaves the interim buffers as they are
InterimKept == currentInterim

\* LiveChat.tsx:138  setCurrentInterim({user: '', model: ''})
InterimAfterTurn == EmptyInterim

\* LiveChat onmessage (transcript part)
onmessageLive(s, m) ==
  /\ IF m.tc
       THEN /\ transcription' = SetState(transcription, Append(transcription, capInterim[s]), mounted)
            /\ currentInterim' = SetState(currentInterim, InterimAfterTurn, mounted)
       ELSE /\ transcription' = transcription
            /\ currentInterim' = SetState(currentInterim,
                                          [user |-> Cat(currentInterim.user, m.inp),
                                           model |-> Cat(currentInterim.model, m.out)], mounted)
  /\ UNCHANGED <<transcriptionText, finalizedTranscription, input>>

\* Transcriber onmessage
onmessageTranscriber(s, m) ==
  /\ IF m.tc
       THEN /\ finalizedTranscription' = SetState(finalizedTranscription,
                                                  finalizedTranscription \o capTranscription[s], mounted)
            /\ transcriptionText' = SetState(transcriptionText, EmptyText, mounted)
       ELSE /\ finalizedTranscription' = finalizedTranscription
            /\ transcriptionText' = SetState(transcriptionText, Cat(transcriptionText, m.inp), mounted)
  /\ UNCHANGED <<transcription, currentInterim, input>>

\* Chat onmessage
onmessageChat(s, m) ==
  /\ input' = SetState(input, Cat(input, m.inp), mounted)
  /\ UNCHANGED <<transcription, currentInterim, transcriptionText, finalizedTranscription>>

\* the onmessage callback of session s receives m
onmessageHandler(s, m) ==
  /\ conn[s] = "open"
  /\ nMsgs' = nMsgs + 1
  /\ CASE comp = "LiveChat" -> onmessageLive(s, m)
       [] comp = "Transcriber" -> onmessageTranscriber(s, m)
       [] comp = "Chat" -> onmessageChat(s, m)
  /\ lastStart' = "none"
  /\ UNCHANGED <<comp, mounted, uiVars, refVars, backendVars, pc, resVars, callVars>>

onmessage(s, m) ==
  /\ nMsgs < MaxMsgs
  /\ onmessageHandler(s, m)
  /\ UNCHANGED extVars

\* an error callback that only logs
onerrorLogOnly(s) == UNCHANGED <<uiVars, textVars, refVars, resVars, callVars>>

\* onerror: logs and calls the stop routine captured when the session was started
onerrorBody(s) ==
  CASE comp = "LiveChat" -> stopConversation(mounted)
    [] comp = "Transcriber" -> stopTranscription(capTranscription[s], mounted)
    [] comp = "Chat" -> stopRecording(mounted)

onerror(s) ==
  /\ conn[s] \in {"connecting", "open"}
  /\ conn' = [conn EXCEPT ![s] = "errored"]
  /\ lastStart' = "none"
  /\ onerrorBody(s)
  /\ UNCHANGED <<comp, mounted, nSess, capInterim, capTranscription, pc, nMsgs>>
  /\ UNCHANGED extVars

\* onclose
oncloseBody(s) ==
  CASE comp = "LiveChat" -> stopConversation(mounted)
    [] comp = "Transcriber" ->
         /\ isRecording' = SetState(isRecording, FALSE, mounted)
         /\ UNCHANGED <<isConnecting, isActive, textVars, refVars, resVars, callVars>>
    [] comp = "Chat" ->
         UNCHANGED <<uiVars, textVars, refVars, resVars, callVars>>

onclose(s) ==
  /\ conn[s] \in {"connecting", "open", "errored"}
  /\ conn' = [conn EXCEPT ![s] = "closed"]
  /\ lastStart' = "none"
  /\ oncloseBody(s)
  /\ UNCHANGED <<comp, mounted, nSess, capInterim, capTranscription, pc, nMsgs>>
  /\ UNCHANGED extVars

\* the messages the lifecycle specification delivers: a partial transcript or a turn boundary
LifecycleMessages ==
  {[inp |-> "Hel", out |-> None, tc |-> FALSE], [inp |-> None, out |-> None, tc |-> TRUE]}

Next ==
  \/ \E throws \in BOOLEAN : startConversation(throws)
  \/ \E throws \in BOOLEAN : startTranscription(throws)
  \/ \E throws \in BOOLEAN : handleMicClick(throws)
  \/ StopButtonLive
  \/ StopButtonTranscriber
  \/ Unmount
  \/ \E s \in Sessions : onopen(s)
  \/ \E s \in Sessions : onopenGranted(s)
  \/ \E s \in Sessions : onopenDenied(s)
  \/ \E s \in Sessions, m \in LifecycleMessages : onmessage(s, m)
  \/ \E s \in Sessions : onerror(s)
  \/ \E s \in Sessions : onclose(s)

Spec == Init /\ [][Next]_vars

TypeOK ==
  /\ comp \in Components
  /\ mounted \in BOOLEAN
  /\ isConnecting \in BOOLEAN /\ isActive \in BOOLEAN /\ isRecording \in BOOLEAN
  /\ sessionRef \in 0..MaxSessions /\ streamRef \in 0..MaxSessions
  /\ audioContextRef \in 0..MaxSessions /\ scriptProcessorRef \in 0..MaxSessions
  /\ nSess \in 0..MaxSessions
  /\ \A s \in Sessions :
       /\ conn[s] \in {"none", "connecting", "open", "errored", "closed"}
       /\ pc[s] \in {"none", "awaitMic", "done", "failed"}
       /\ mic[s] \in {"none", "live", "stopped"}
       /\ ctx[s] \in {"none", "running", "closed"}
       /\ proc[s] \in {"none", "connected", "disconnected"}
       /\ closeReq[s] \in 0..2 /\ closeCalls[s] \in 0..2 /\ pendClose[s] \in 0..2
       /\ trackStops[s] \in 0..2 /\ procDisc[s] \in 0..2 /\ ctxCloses[s] \in 0..2
  /\ nMsgs \in Nat
  /\ lastStart \in {"none", "accepted", "rejected"}

(***************************************************************************)
(* Properties of the session lifecycle.                                    *)
(***************************************************************************)
Idle == ~isConnecting /\ ~isActive /\ ~isRecording

\* the steps in which the callbacks of session s run
ErrorStep(s) == conn[s] # "errored" /\ conn'[s] = "errored"
ClosedStep(s) == conn[s] # "closed" /\ conn'[s] = "closed"
GrantedStep(s) == pc[s] = "awaitMic" /\ pc'[s] = "done"
DeniedStep(s) == pc[s] = "awaitMic" /\ pc'[s] = "failed"

\* C1: a call of LiveChat.startConversation while the component is connecting
\* or active changes nothing: no backend stream is opened, no microphone is
\* requested or acquired, the refs, the transcript log and the interim
\* buffers keep their values.
C1_StartWhileBusyIsNoOp ==
  [][(comp = "LiveChat" /\ (isConnecting \/ isActive) /\ lastStart' # "none")
       => UNCHANGED <<nSess, conn, pc, mic, ctx, proc, refVars, uiVars,
                      transcription, currentInterim>>]_vars

C1_Witness ==
  /\ comp = "LiveChat"
  /\ lastStart = "rejected"
  /\ isActive
  /\ nSess = 1
  /\ currentInterim.user # EmptyText

\* a start of a transcription-only feature is in flight: the stream was requested
\* and its opened callback has not yet wired the microphone and set isRecording
StartInFlight ==
  /\ sessionRef # 0
  /\ ~isRecording
  /\ conn[sessionRef] \in {"connecting", "open"}
  /\ pc[sessionRef] \in {"none", "awaitMic"}

\* C2: in Transcriber and Chat a start request issued while an earlier start
\* is still in flight opens no second backend stream and requests no second
\* microphone.
C2_StartInFlightIsNoOp ==
  [][(comp \in {"Transcriber", "Chat"} /\ StartInFlight /\ lastStart' # "none")
       => (nSess' = nSess /\ conn' = conn /\ pc' = pc /\ sessionRef' = sessionRef)]_vars

\* C3: whatever number of stop invocations follow a start, and whoever issues
\* them, the backend close request, the track stop, the processor disconnect
\* and the context close are each issued at most once per session; a stop
\* when nothing was ever started releases nothing.
C3_StopIdempotent ==
  /\ \A s \in Sessions :
       /\ closeReq[s] <= 1
       /\ closeCalls[s] + pendClose[s] <= 1
       /\ trackStops[s] <= 1
       /\ procDisc[s] <= 1
       /\ ctxCloses[s] <= 1
  /\ (nSess = 0 /\ ~mounted) =>
       /\ sessionRef = 0 /\ streamRef = 0 /\ scriptProcessorRef = 0 /\ audioContextRef = 0
       /\ \A s \in Sessions : closeReq[s] = 0 /\ trackStops[s] = 0 /\ procDisc[s] = 0 /\ ctxCloses[s] = 0

\* the stop routine ran at least twice (for the closed event and for the unmount
\* of LiveChat), and a fully wired session was released exactly once
C3_Witness ==
  /\ comp = "LiveChat"
  /\ ~mounted
  /\ nSess = 1
  /\ conn[1] = "closed"
  /\ closeCalls[1] = 1 /\ trackStops[1] = 1 /\ procDisc[1] = 1 /\ ctxCloses[1] = 1

\* C4: when getUserMedia rejects after the stream opened, the start aborts
\* cleanly: the close of that stream has been requested, sessionRef does not
\* retain the session, and the UI state is idle.
C4_DeniedStartAbortsCleanly ==
  [][\A s \in Sessions :
       DeniedStep(s) => (closeReq'[s] > 0 /\ sessionRef' # s /\ (mounted => Idle'))]_vars

\* C5: when stop has run for a session whose onopen is still waiting for the
\* microphone, the completion of getUserMedia retains no stream, builds no
\* capture graph and does not make the state active or recording.
C5_StopCancelsStartInFlight ==
  [][\A s \in Sessions :
       (closeReq[s] > 0 /\ GrantedStep(s))
         => (mic'[s] # "live" /\ streamRef' # s /\ proc'[s] # "connected"
             /\ scriptProcessorRef' # s /\ UNCHANGED uiVars)]_vars

C7_NoCloseAfterRemoteClose ==
  [][\A s \in Sessions :
       (comp = "LiveChat" /\ sessionRef = s /\ ClosedStep(s))
         => closeCalls'[s] = closeCalls[s]]_vars

\* C8: after the closed callback has run in Transcriber or Chat, the
\* microphone stream, the processor and the session are released and their
\* refs null, the capture context is closed and isRecording is false.
C8_ClosedTearsDown ==
  [][\A s \in Sessions :
       (comp \in {"Transcriber", "Chat"} /\ ClosedStep(s))
         => /\ sessionRef' = 0 /\ streamRef' = 0 /\ scriptProcessorRef' = 0
            /\ streamRef # 0 => mic'[streamRef] = "stopped"
            /\ scriptProcessorRef # 0 => proc'[scriptProcessorRef] = "disconnected"
            /\ audioContextRef # 0 => ctx'[audioContextRef] = "closed"
            /\ mounted => ~isRecording']_vars

\* C9: after the component has unmounted no microphone track is live, no
\* capture processor is connected and every backend stream that is not yet
\* closed has had its close requested.
C9_UnmountReleasesEverything ==
  ~mounted =>
    \A s \in Sessions :
      /\ mic[s] # "live"
      /\ proc[s] # "connected"
      /\ conn[s] \in {"connecting", "open"} => closeReq[s] > 0

\* C10: the LiveChat state changes only along idle -> connecting,
\* connecting -> active, connecting -> idle and active -> idle, and
\* isConnecting and isActive are never both true.
C10_LifecycleTransitions ==
  [][comp = "LiveChat" =>
       /\ ~(~isConnecting /\ ~isActive /\ isActive')
       /\ ~(isActive /\ isConnecting')
       /\ ~(isConnecting' /\ isActive')]_vars

(***************************************************************************)
(* The transcript specification: the same lifecycle without the failures   *)
(* of the start routine and of getUserMedia, with up to MaxTextMsgs server *)
(* events, each a partial transcript of one side or a turn boundary.       *)
(***************************************************************************)
MaxTextSessions == 1
MaxTextMsgs == 3

TextMessages ==
  {m \in Messages : Cardinality({f \in {"inp", "out"} : m[f] # None}) + (IF m.tc THEN 1 ELSE 0) = 1}

onmessageText(s, m) ==
  /\ nMsgs < MaxTextMsgs
  /\ onmessageHandler(s, m)
  /\ lastMsg' = m
  /\ UNCHANGED <<playVars, sideVars>>

\* the start routines while the specification still has a session to give
startConversationText == nSess < MaxTextSessions /\ startConversation(FALSE)
startTranscriptionText == nSess < MaxTextSessions /\ startTranscription(FALSE)
handleMicClickText == (isRecording \/ nSess < MaxTextSessions) /\ handleMicClick(FALSE)

NextText ==
  \/ startConversationText
  \/ startTranscriptionText
  \/ handleMicClickText
  \/ StopButtonLive
  \/ StopButtonTranscriber
  \/ Unmount
  \/ \E s \in Sessions : onopen(s)
  \/ \E s \in Sessions : onopenGranted(s)
  \/ \E s \in Sessions, m \in TextMessages : onmessageText(s, m)
  \/ \E s \in Sessions : onerror(s)
  \/ \E s \in Sessions : onclose(s)

SpecText == Init /\ [][NextText]_vars

(***************************************************************************)
(* The playback specification: the audio part of LiveChat's onmessage for  *)
(* the first session.  Time is counted in ticks of a tenth of a second; a  *)
(* chunk is valid 16-bit PCM whose duration is a whole number of ticks.    *)
(* The handler has one suspension point, the await of decodeAudioData.     *)
(* decodeAudioData contains no await, so the promise it returns is already *)
(* settled and the handler resumes in the microtasks of the same task:     *)
(* handlers resume in the order in which they were suspended, and the      *)
(* context time, at this resolution, does not move while one is suspended. *)
(* A further onmessage call may begin before a suspended handler resumes.  *)
(* underrun records that a chunk arrived after the cursor had been passed  *)
(* by the context time, i.e. after everything scheduled had played out.    *)
(***************************************************************************)
MaxChunks == 3
MaxTime == 6

\* durations of the chunks, in ticks: 0.3 s and 0.5 s
Durations == {3, 5}

Max(a, b) == IF a >= b THEN a ELSE b

\* a cursor that ignores the context time
ScheduleTimeNoMax == nextStartTime

\* LiveChat.tsx:143  Math.max(nextStartTime, outputAudioContext.currentTime)
ScheduleTime == Max(nextStartTime, currentTime)

\* a cursor that stays where the buffer starts
CursorKept(dur) == nextStartTime

\* LiveChat.tsx:150  nextStartTime += audioBuffer.duration
CursorAfterStart(dur) == nextStartTime + dur

\* payloads that do not decode: atob rejects the text (LiveChat.tsx:17), or the
\* byte length is odd and new Int16Array(data.buffer) throws (LiveChat.tsx:33)
BadBase64 == [kind |-> "badBase64", dur |-> 0]
OddLength == [kind |-> "oddLength", dur |-> 0]
Malformed == {BadBase64, OddLength}
\* base64 of dur ticks of 16-bit PCM
Pcm(dur) == [kind |-> "pcm", dur |-> dur]
Chunks == {Pcm(dur) : dur \in Durations} \cup Malformed

\* the audio part of onmessage for the payload c, up to the await: decode runs
\* while the argument of decodeAudioData is evaluated, so invalid base64 throws
\* out of the handler before it suspends; decodeAudioData is an async
\* function, so its exception reaches the handler when it resumes
AudioPart(c) ==
  /\ nextStartTime' = ScheduleTime
  /\ decoding' = IF c = BadBase64
                   THEN decoding
                   ELSE Append(decoding, [id |-> Len(started) + Len(decoding) + 1,
                                          dur |-> c.dur,
                                          ok |-> c.kind = "pcm",
                                          at |-> currentTime, behind |-> Len(decoding)])
  /\ underrun' = (underrun \/ (started # << >> /\ currentTime > nextStartTime))
  /\ UNCHANGED <<currentTime, started>>

\* onmessage of session s with an audio chunk of duration dur, up to the await
onmessageAudio(s, dur) ==
  /\ conn[s] = "open"
  /\ Len(started) + Len(decoding) < MaxChunks
  /\ AudioPart(Pcm(dur))
  /\ lastStart' = "none"
  /\ UNCHANGED <<lifecycleVars, lastMsg, sideVars>>

\* a decoder that returns a buffer for every payload
DecodedAlways(h) == TRUE

\* the await of decodeAudioData yields a buffer
Decoded(h) == h.ok

\* the handler suspended first resumes: LiveChat.tsx:145-150; a rejected
\* decode throws out of the handler here and the rest is skipped
onmessageAudioResume ==
  /\ decoding # << >>
  /\ IF Decoded(Head(decoding))
       THEN /\ started' = Append(started, [id |-> Head(decoding).id, dur |-> Head(decoding).dur,
                                            at |-> Head(decoding).at, behind |-> Head(decoding).behind,
                                            start |-> nextStartTime, now |-> currentTime])
            /\ nextStartTime' = CursorAfterStart(Head(decoding).dur)
       ELSE UNCHANGED <<started, nextStartTime>>
  /\ decoding' = Tail(decoding)
  /\ lastStart' = "none"
  /\ UNCHANGED <<lifecycleVars, lastMsg, currentTime, underrun, sideVars>>

\* the output context, created running by startConversation, plays on
Tick ==
  /\ nSess >= 1
  /\ decoding = << >>
  /\ currentTime < MaxTime
  /\ currentTime' = currentTime + 1
  /\ lastStart' = "none"
  /\ UNCHANGED <<lifecycleVars, lastMsg, nextStartTime, decoding, started, underrun, sideVars>>

\* the first accepted start creates the cursor and the output context
startConversationPlay == nSess = 0 /\ startConversation(FALSE)

InitPlay == Init /\ comp = "LiveChat"

NextPlay ==
  \/ startConversationPlay
  \/ onopen(1)
  \/ \E dur \in Durations : onmessageAudio(1, dur)
  \/ onmessageAudioResume
  \/ Tick

SpecPlay == InitPlay /\ [][NextPlay]_vars

(***************************************************************************)
(* The message specification: one LiveChat session whose messages carry    *)
(* any combination of transcript parts and an audio payload, well-formed   *)
(* or not.                                                                 *)
(***************************************************************************)
MaxLiveMsgs == 2

LiveMessages == {m \in Messages : m.inp \in {None, "Hel"} /\ m.out \in {None, "lo"}}

\* a handler that gets to the transcript parts only after the payload has decoded
TranscriptPartsAfterDecode(m, c) == IF c \in Malformed THEN NoMsg ELSE m

\* LiveChat.tsx:129-139 come before the audio part at 141-151: the transcript
\* parts of m are all handled by the time the payload c is looked at
TranscriptParts(m, c) == m

\* LiveChat onmessage with the message m and the audio payload c (NoAudio: none)
onmessageLiveChat(s, m, c) ==
  /\ nMsgs < MaxLiveMsgs
  /\ onmessageHandler(s, TranscriptParts(m, c))
  /\ lastMsg' = m
  /\ lastAudio' = c
  /\ IF c = NoAudio THEN UNCHANGED playVars ELSE AudioPart(c)
  /\ UNCHANGED <<captureVars, appVars>>

NextLive ==
  \/ startConversationPlay
  \/ onopen(1)
  \/ onopenGranted(1)
  \/ \E m \in LiveMessages, c \in Chunks \cup {NoAudio} : onmessageLiveChat(1, m, c)
  \/ onmessageAudioResume
  \/ Tick

SpecLive == InitPlay /\ [][NextLive]_vars

(***************************************************************************)
(* The capture specification: the lifecycle together with the audio        *)
(* callbacks of the ScriptProcessor nodes.  A node calls onaudioprocess    *)
(* while it is connected in a running context.  The callback chains the    *)
(* send on the promise sessionRef holds: on a resolved promise the send is *)
(* made in the microtasks of the callback, on a pending one it waits, in   *)
(* registration order with the close callbacks, until the promise          *)
(* resolves.  Every send is recorded with the number of its frame, with    *)
(* whether it had to wait, and with whether a close had been chained or    *)
(* made on the session before it (late).                                   *)
(***************************************************************************)
MaxFrames == 2

\* a callback that sends to the session its own onopen belongs to
SendTargetOwn(p) == p

\* LiveChat.tsx:117-118  the callback reads sessionRef.current when it runs
SendTarget(p) == sessionRef

\* a chain that runs the callback registered last first
ChainFirst(q, e) == <<e>> \o q

\* Promise.then: callbacks run in the order in which they were registered
Chain(q, e) == Append(q, e)

\* onaudioprocess of the processor created by the onopen of session p
onaudioprocess(p) ==
  /\ proc[p] = "connected"
  /\ ctx[p] = "running"
  /\ nFrames < MaxFrames
  /\ nFrames' = nFrames + 1
  /\ LET t == SendTarget(p)
         e == [f |-> nFrames + 1, waited |-> ~Resolved(t), late |-> closeReq[t] > 0]
     IN IF t = 0
          THEN UNCHANGED <<sendLog, pendSend>>
          ELSE IF Resolved(t)
                 THEN /\ sendLog' = [sendLog EXCEPT ![t] = Append(@, e)]
                      /\ pendSend' = pendSend
                 ELSE /\ pendSend' = [pendSend EXCEPT ![t] = Chain(@, e)]
                      /\ sendLog' = sendLog
  /\ lastStart' = "none"
  /\ UNCHANGED <<lifecycleVars, lastMsg, playVars, lastAudio, appVars>>

\* the opened event of session s: its promise resolves and the sends chained on it are made
onopenCapture(s) ==
  /\ onopenBody(s)
  /\ sendLog' = [sendLog EXCEPT ![s] = @ \o pendSend[s]]
  /\ pendSend' = [pendSend EXCEPT ![s] = << >>]
  /\ UNCHANGED <<lastMsg, playVars, lastAudio, nFrames, appVars>>

NextCapture ==
  \/ startConversation(FALSE)
  \/ startTranscription(FALSE)
  \/ handleMicClick(FALSE)
  \/ StopButtonLive
  \/ StopButtonTranscriber
  \/ Unmount
  \/ \E s \in Sessions : onopenCapture(s)
  \/ \E s \in Sessions : onopenGranted(s)
  \/ \E p \in Sessions : onaudioprocess(p)
  \/ \E s \in Sessions : onerror(s)
  \/ \E s \in Sessions : onclose(s)

SpecCapture == Init /\ [][NextCapture]_vars

(***************************************************************************)
(* The chat specification: App's login gate and feature switch, and the    *)
(* message list of Chat with its copy in localStorage.  The save effect of *)
(* Chat.tsx:53-59 has no cleanup and depends on messages and the key, so   *)
(* it runs after the first render of a Chat and after every render in      *)
(* which messages changed; each action below includes the run that its     *)
(* own state change causes.  No voice recording is started here, so the    *)
(* cleanup of Chat.tsx:191-195 finds nothing to release.                   *)
(***************************************************************************)
MaxSends == 2
MaxInst == 3

\* everything but the mount flag and the App/Chat state
voiceVars == <<comp, uiVars, transcription, currentInterim, transcriptionText,
               finalizedTranscription, refVars, backendVars, pc, resVars, callVars, nMsgs,
               lastStart, lastMsg, playVars, lastAudio, captureVars, mediaVars, bootVars>>

\* the text property of a message part: a string, written as the sequence of
\* its pieces, or undefined
Text(t) == [defined |-> TRUE, s |-> t]
Undefined == [defined |-> FALSE, s |-> << >>]

\* what the user types, the text of a response (response.text is undefined
\* when the response holds no text part) and the text shown for a failure
Typed == {<<"2+2?">>, <<" ", " ">>}
ResponseTexts == {Text(<<"4">>), Undefined}
Apology == Text(<<"Sorry, I encountered an error. Please try again.">>)

\* Chat.tsx:64: !input.trim()
IsBlank(t) == \A i \in 1..Len(t) : t[i] = " "

\* one key for every user
HistoryKeyShared(u) == <<"chatgps-chat-history-", "student">>

\* Chat.tsx:23 and App.tsx:123: `chatgps-chat-history-${currentUser}`
HistoryKey(u) == <<"chatgps-chat-history-", u>>

\* JSON.stringify of a message list: a property whose value is undefined is
\* left out of the object
RECURSIVE StringifyFrom(_, _)
StringifyFrom(m, i) ==
  IF i > Len(m) THEN << >>
  ELSE <<[role |-> m[i].role,
          hasText |-> m[i].text.defined,
          text |-> IF m[i].text.defined THEN m[i].text.s ELSE << >>]>>
       \o StringifyFrom(m, i + 1)

Stringify(m) == [present |-> TRUE, value |-> StringifyFrom(m, 1)]

\* JSON.parse: reading a property the object does not have gives undefined
RECURSIVE ParseFrom(_, _)
ParseFrom(v, i) ==
  IF i > Len(v) THEN << >>
  ELSE <<[role |-> v[i].role,
          text |-> IF v[i].hasText THEN Text(v[i].text) ELSE Undefined]>>
       \o ParseFrom(v, i + 1)

Parse(item) == ParseFrom(item.value, 1)

\* Chat.tsx:25-33: the initial message list of a Chat of user u
InitialMessages(u) ==
  IF localStore[HistoryKey(u)].present THEN Parse(localStore[HistoryKey(u)]) ELSE << >>

\* a store nobody writes to
SavedNever(store, u, m) == store

\* Chat.tsx:53-59: the save effect
Saved(store, u, m) == [store EXCEPT ![HistoryKey(u)] = Stringify(m)]

\* a logout that leaves the store alone
StoreKeptByLogout(store, u) == store

\* App.tsx:122-124: removeItem
StoreAfterLogout(store, u) == [store EXCEPT ![HistoryKey(u)] = Absent]

\* App.tsx:136-147: the feature in which the component comp is rendered
FeatureOf(c) ==
  CASE c = "Chat" -> "chat"
    [] c = "LiveChat" -> "live"
    [] c = "Transcriber" -> "transcribe"

\* a Chat of user u is rendered for the first time
MountChat(u) ==
  /\ nInst < MaxInst
  /\ nInst' = nInst + 1
  /\ chatInst' = nInst + 1
  /\ mounted' = (comp = "Chat")
  /\ messages' = InitialMessages(u)
  /\ isLoading' = FALSE
  /\ input' = EmptyText
  /\ localStore' = Saved(localStore, u, InitialMessages(u))

\* the Chat on screen, if any, is removed
UnmountChat ==
  /\ chatInst' = 0
  /\ mounted' = FALSE
  /\ UNCHANGED <<nInst, messages, isLoading, input>>

\* App.handleLogin, called by the login page App renders
handleLogin(u) ==
  /\ AppRendered
  /\ currentUser = NoUser
  /\ currentUser' = u
  /\ sessionUser' = u
  /\ lastOp' = "login"
  /\ IF activeFeature = "chat"
       THEN MountChat(u)
       ELSE UNCHANGED <<nInst, chatInst, mounted, messages, isLoading, input, localStore>>
  /\ UNCHANGED <<activeFeature, inflight, nSends, voiceVars>>

\* App.handleLogout; confirmed is the answer of window.confirm
handleLogout(confirmed) ==
  /\ currentUser # NoUser
  /\ IF confirmed
       THEN /\ localStore' = StoreAfterLogout(localStore, currentUser)
            /\ currentUser' = NoUser
            /\ sessionUser' = NoUser
            /\ UnmountChat
            /\ lastOp' = "logout"
       ELSE /\ lastOp' = "logoutDeclined"
            /\ UNCHANGED <<localStore, currentUser, sessionUser, chatInst, mounted, nInst,
                           messages, isLoading, input>>
  /\ UNCHANGED <<activeFeature, inflight, nSends, voiceVars>>

\* the sidebar: setActiveFeature
setActiveFeature(f) ==
  /\ currentUser # NoUser
  /\ f # activeFeature
  /\ activeFeature' = f
  /\ lastOp' = "feature"
  /\ IF f = "chat"
       THEN MountChat(currentUser)
       ELSE /\ chatInst' = 0
            /\ mounted' = (FeatureOf(comp) = f)
            /\ UNCHANGED <<nInst, messages, isLoading, input, localStore>>
  /\ UNCHANGED <<currentUser, sessionUser, inflight, nSends, voiceVars>>

\* the page is reloaded: sessionStorage keeps the user, every pending call is gone
Reload ==
  /\ sessionUser # NoUser
  /\ currentUser' = sessionUser
  /\ activeFeature' = "chat"
  /\ inflight' = {}
  /\ lastOp' = "reload"
  /\ MountChat(sessionUser)
  /\ UNCHANGED <<sessionUser, nSends, voiceVars>>

\* the tab is closed and the application opened in a new one: sessionStorage is empty
CloseTab ==
  /\ currentUser # NoUser
  /\ currentUser' = NoUser
  /\ sessionUser' = NoUser
  /\ activeFeature' = "chat"
  /\ inflight' = {}
  /\ lastOp' = "closeTab"
  /\ UnmountChat
  /\ UNCHANGED <<localStore, nSends, voiceVars>>

\* Chat.tsx:292-294: the onChange of the input field, which is disabled while
\* a request is loading
handleInputChange(t) ==
  /\ chatInst # 0
  /\ ~isLoading
  /\ input' = t
  /\ lastOp' = "input"
  /\ UNCHANGED <<currentUser, sessionUser, localStore, activeFeature, chatInst, nInst, mounted,
                 messages, isLoading, inflight, nSends, voiceVars>>

\* Chat.handleSend, up to the await
handleSend ==
  /\ chatInst # 0
  /\ IF IsBlank(input) \/ isLoading
       THEN /\ lastOp' = "sendIgnored"
            /\ UNCHANGED <<messages, isLoading, inflight, localStore, nSends, input>>
       ELSE /\ nSends < MaxSends
            /\ nSends' = nSends + 1
            /\ messages' = Append(messages, [role |-> "user", text |-> Text(input)])
            /\ input' = EmptyText
            /\ isLoading' = TRUE
            /\ inflight' = inflight \cup {[inst |-> chatInst, history |-> messages]}
            /\ localStore' = Saved(localStore, currentUser, messages')
            /\ lastOp' = "send"
  /\ UNCHANGED <<currentUser, sessionUser, activeFeature, chatInst, nInst, mounted, voiceVars>>

\* generateText settles for request r: handleSend resumes in the try or in the
\* catch, then runs the finally; the updates of a Chat that is gone are dropped
handleSendResume(r, ok, text) ==
  /\ r \in inflight
  /\ inflight' = inflight \ {r}
  /\ lastOp' = IF ok THEN "reply" ELSE "failure"
  /\ IF r.inst = chatInst
       THEN /\ messages' = Append(messages, [role |-> "model",
                                             text |-> IF ok THEN text ELSE Apology])
            /\ isLoading' = FALSE
            /\ localStore' = Saved(localStore, currentUser, messages')
       ELSE UNCHANGED <<messages, isLoading, localStore>>
  /\ UNCHANGED <<currentUser, sessionUser, activeFeature, chatInst, nInst, mounted, nSends,
                 input, voiceVars>>

\* Chat.handleClearHistory; confirmed is the answer of window.confirm.  The
\* button is rendered while the list is not empty (Chat.tsx:240).
handleClearHistory(confirmed) ==
  /\ chatInst # 0
  /\ Len(messages) > 0
  /\ IF confirmed
       THEN /\ messages' = << >>
            /\ localStore' = Saved(localStore, currentUser, << >>)
            /\ lastOp' = "clear"
       ELSE /\ lastOp' = "clearDeclined"
            /\ UNCHANGED <<messages, localStore>>
  /\ UNCHANGED <<currentUser, sessionUser, activeFeature, chatInst, nInst, mounted, isLoading,
                 inflight, nSends, input, voiceVars>>

\* a fresh tab: nobody is logged in and the login page is shown
InitChat == InitMounted(FALSE) /\ comp = "Chat" /\ Booted

NextChat ==
  \/ \E u \in Users : handleLogin(u)
  \/ \E confirmed \in BOOLEAN : handleLogout(confirmed)
  \/ \E f \in {"chat", "media"} : setActiveFeature(f)
  \/ Reload
  \/ CloseTab
  \/ \E t \in Typed : handleInputChange(t)
  \/ handleSend
  \/ \E r \in inflight : \E ok \in BOOLEAN : \E text \in ResponseTexts :
       handleSendResume(r, ok, text)
  \/ \E confirmed \in BOOLEAN : handleClearHistory(confirmed)

SpecChat == InitChat /\ [][NextChat]_vars

(***************************************************************************)
(* The opening specification: LiveChat while the stream is being opened.   *)
(* startConversation stores the promise ai.live.connect returns without    *)
(* awaiting it and without a rejection handler (LiveChat.tsx:91), so a     *)
(* rejection of that promise runs no code of the component.                *)
(***************************************************************************)
\* the connect promise of session s rejects before the stream has opened
connectRejects(s) ==
  /\ conn[s] = "connecting"
  /\ pc[s] = "none"
  /\ conn' = [conn EXCEPT ![s] = "rejected"]
  /\ lastStart' = "none"
  /\ UNCHANGED <<comp, mounted, uiVars, textVars, refVars, nSess, capInterim, capTranscription,
                 pc, resVars, callVars, nMsgs>>
  /\ UNCHANGED extVars

NextOpen ==
  \/ \E throws \in BOOLEAN : startConversation(throws)
  \/ StopButtonLive
  \/ Unmount
  \/ \E s \in Sessions :
       \/ connectRejects(s)
       \/ onopen(s)
       \/ onopenGranted(s)
       \/ onopenDenied(s)
       \/ onerror(s)
       \/ onclose(s)

SpecOpen == InitPlay /\ [][NextOpen]_vars

(***************************************************************************)
(* The analyzer specification: MediaAnalyzer on screen after a login.  It  *)
(* is shown when the user picks it in the sidebar and starts with the      *)
(* initial values of its useState calls.  analysis[j] is the j-th accepted *)
(* handleAnalyze call: the kind of its file, where it stands, and whether  *)
(* it has set result or error.                                             *)
(***************************************************************************)
MaxAnalyze == 2

FileKinds == {"image", "video", "other"}
Prompts == {<<"what?">>, <<" ">>}
ValidationError == "Please upload a file and enter a prompt."
UnsupportedError == "Unsupported file type. Please upload an image or video."
AnalysisError == "An error occurred during analysis. Please try again."
CanvasError == "Could not get canvas context."
ResultText == "a cat"

\* everything but the MediaAnalyzer state and lastOp
restOfMedia == <<lifecycleVars, lastStart, lastMsg, playVars, lastAudio, captureVars,
                 currentUser, sessionUser, localStore, activeFeature, chatInst, nInst,
                 messages, isLoading, inflight, nSends, bootVars>>

MediaShown == currentUser # NoUser /\ activeFeature = "media"

\* MediaAnalyzer.tsx:26-35
handleFileChange(k) ==
  /\ MediaShown
  /\ file' = k
  /\ result' = ""
  /\ error' = ""
  /\ lastOp' = "file"
  /\ UNCHANGED <<prompt, isLoadingMedia, analysis, nAnalyze, nCalls, restOfMedia>>

\* MediaAnalyzer.tsx:160
handlePromptChange(p) ==
  /\ MediaShown
  /\ prompt' = p
  /\ lastOp' = "prompt"
  /\ UNCHANGED <<file, result, error, isLoadingMedia, analysis, nAnalyze, nCalls, restOfMedia>>

\* MediaAnalyzer.tsx:53, 60-62, 65-109: analyzeVideo sets video.src and the
\* onloadeddata handler and returns, so the await in handleAnalyze ends at
\* once and the finally block runs
LoadingAfterAnalyzeVideo == FALSE

\* video.onloadeddata = ... replaces the handler an earlier call installed
HandlerReplaced(a) ==
  [j \in 1..Len(a) |-> IF a[j].at = "awaitLoaded" THEN [a[j] EXCEPT !.at = "replaced"] ELSE a[j]]

\* MediaAnalyzer.handleAnalyze up to its first suspension; the button is
\* disabled while isLoading (MediaAnalyzer.tsx:166)
handleAnalyze ==
  /\ MediaShown
  /\ ~isLoadingMedia
  /\ IF file = "none" \/ IsBlank(prompt)
       THEN /\ error' = ValidationError
            /\ lastOp' = "analyzeInvalid"
            /\ UNCHANGED <<result, isLoadingMedia, analysis, nAnalyze>>
       ELSE /\ nAnalyze < MaxAnalyze
            /\ nAnalyze' = nAnalyze + 1
            /\ lastOp' = "analyze"
            /\ result' = ""
            /\ CASE file = "image" ->
                      /\ isLoadingMedia' = TRUE
                      /\ error' = ""
                      /\ analysis' = Append(analysis, [kind |-> "image", at |-> "readFile", set |-> FALSE])
                 [] file = "video" ->
                      /\ isLoadingMedia' = LoadingAfterAnalyzeVideo
                      /\ error' = ""
                      /\ analysis' = Append(HandlerReplaced(analysis),
                                            [kind |-> "video", at |-> "awaitLoaded", set |-> FALSE])
                 [] file = "other" ->
                      /\ isLoadingMedia' = FALSE
                      /\ error' = UnsupportedError
                      /\ analysis' = Append(analysis, [kind |-> "other", at |-> "done", set |-> TRUE])
  /\ UNCHANGED <<file, prompt, nCalls, restOfMedia>>

\* the catch and finally of handleAnalyze
AnalyzeFailed(j) ==
  /\ error' = AnalysisError
  /\ isLoadingMedia' = FALSE
  /\ analysis' = [analysis EXCEPT ![j] = [@ EXCEPT !.at = "done", !.set = TRUE]]
  /\ UNCHANGED <<result, nCalls>>

\* fileToBase64 settles (MediaAnalyzer.tsx:49-50)
fileToBase64Settles(j, ok) ==
  /\ j \in 1..Len(analysis)
  /\ analysis[j].at = "readFile"
  /\ lastOp' = IF ok THEN "step" ELSE "failure"
  /\ IF ok
       THEN /\ analysis' = [analysis EXCEPT ![j].at = "imageCall"]
            /\ nCalls' = nCalls + 1
            /\ UNCHANGED <<result, error, isLoadingMedia>>
       ELSE AnalyzeFailed(j)
  /\ UNCHANGED <<file, prompt, nAnalyze, restOfMedia>>

\* generateTextAndImage settles (MediaAnalyzer.tsx:50-51, 57-62)
generateTextAndImageSettles(j, ok) ==
  /\ j \in 1..Len(analysis)
  /\ analysis[j].at = "imageCall"
  /\ lastOp' = IF ok THEN "step" ELSE "failure"
  /\ IF ok
       THEN /\ result' = ResultText
            /\ isLoadingMedia' = FALSE
            /\ analysis' = [analysis EXCEPT ![j] = [@ EXCEPT !.at = "done", !.set = TRUE]]
            /\ UNCHANGED <<error, nCalls>>
       ELSE AnalyzeFailed(j)
  /\ UNCHANGED <<file, prompt, nAnalyze, restOfMedia>>

\* the loadeddata event of the video (MediaAnalyzer.tsx:72-85); canvas is
\* whether getContext('2d') returns a context
onloadeddata(j, canvas) ==
  /\ j \in 1..Len(analysis)
  /\ analysis[j].at = "awaitLoaded"
  /\ lastOp' = IF canvas THEN "step" ELSE "failure"
  /\ IF canvas
       THEN /\ analysis' = [analysis EXCEPT ![j].at = "capture"]
            /\ UNCHANGED error
       ELSE /\ analysis' = [analysis EXCEPT ![j] = [@ EXCEPT !.at = "done", !.set = TRUE]]
            /\ error' = CanvasError
  /\ UNCHANGED <<file, prompt, result, isLoadingMedia, nAnalyze, nCalls, restOfMedia>>

\* the frame capture loop (MediaAnalyzer.tsx:87-103): all frames are drawn
\* and generateTextAndVideo is called, or drawImage / toDataURL throws
\* inside the onseeked handler, whose promise then never resolves
captureFrames(j, ok) ==
  /\ j \in 1..Len(analysis)
  /\ analysis[j].at = "capture"
  /\ lastOp' = IF ok THEN "step" ELSE "failure"
  /\ analysis' = [analysis EXCEPT ![j].at = IF ok THEN "videoCall" ELSE "stuck"]
  /\ nCalls' = IF ok THEN nCalls + 1 ELSE nCalls
  /\ UNCHANGED <<file, prompt, result, error, isLoadingMedia, nAnalyze, restOfMedia>>

\* generateTextAndVideo settles (MediaAnalyzer.tsx:103-104); a rejection
\* rejects the promise of the onloadeddata handler, which nobody handles
generateTextAndVideoSettles(j, ok) ==
  /\ j \in 1..Len(analysis)
  /\ analysis[j].at = "videoCall"
  /\ lastOp' = IF ok THEN "step" ELSE "failure"
  /\ IF ok
       THEN /\ result' = ResultText
            /\ analysis' = [analysis EXCEPT ![j] = [@ EXCEPT !.at = "done", !.set = TRUE]]
       ELSE /\ analysis' = [analysis EXCEPT ![j].at = "rejected"]
            /\ UNCHANGED result
  /\ UNCHANGED <<file, prompt, error, isLoadingMedia, nAnalyze, nCalls, restOfMedia>>

NextMedia ==
  \/ \E u \in Users : handleLogin(u)
  \/ setActiveFeature("media")
  \/ \E k \in FileKinds : handleFileChange(k)
  \/ \E p \in Prompts : handlePromptChange(p)
  \/ handleAnalyze
  \/ \E j \in 1..MaxAnalyze : \E ok \in BOOLEAN :
       \/ fileToBase64Settles(j, ok)
       \/ generateTextAndImageSettles(j, ok)
       \/ onloadeddata(j, ok)
       \/ captureFrames(j, ok)
       \/ generateTextAndVideoSettles(j, ok)

SpecMedia == InitChat /\ [][NextMedia]_vars

(***************************************************************************)
(* The startup specification: the page is loaded with or without the       *)
(* credential.  App.tsx imports Chat and MediaAnalyzer, which import the   *)
(* geminiService module; when the evaluation of that module throws, the    *)
(* evaluation of App fails with it and nothing is rendered.  Once App is   *)
(* rendered the user logs in and may go from the chat to one other         *)
(* feature; the specification follows each feature up to its first calls   *)
(* of the backend.                                                         *)
(***************************************************************************)
\* a geminiService module without the check of the credential
ModuleInitNeverThrows == FALSE

\* part_001:3-5: if (!process.env.API_KEY) throw
ModuleInitThrows == ~apiKey

\* the modules of the page are evaluated
LoadApp ==
  /\ app = "loading"
  /\ app' = IF ModuleInitThrows THEN "failed" ELSE "running"
  /\ UNCHANGED <<apiKey, lifecycleVars, lastStart, lastMsg, playVars, lastAudio, captureVars,
                 chatVars, mediaVars>>

Features == {"chat", "media", "live", "transcribe"}

\* the user leaves the chat for feature f before any dictation was started,
\* so that the cleanup of Chat has nothing to release
EnterFeature(f) ==
  /\ activeFeature = "chat"
  /\ nSess = 0
  /\ setActiveFeature(f)

\* the page is opened in a fresh tab
InitBoot == InitMounted(FALSE) /\ apiKey \in BOOLEAN /\ app = "loading"

NextBoot ==
  \/ LoadApp
  \/ \E u \in Users : handleLogin(u)
  \/ \E f \in Features \ {"chat"} : EnterFeature(f)
  \/ \E t \in Typed : handleInputChange(t)
  \/ handleSend
  \/ \E k \in FileKinds : handleFileChange(k)
  \/ \E p \in Prompts : handlePromptChange(p)
  \/ handleAnalyze
  \/ \E j \in 1..MaxAnalyze : \E ok \in BOOLEAN : fileToBase64Settles(j, ok)
  \/ \E throws \in BOOLEAN :
       \/ startConversation(throws)
       \/ startTranscription(throws)
       \/ handleMicClick(throws)
  \/ \E s \in Sessions :
       \/ onopen(s)
       \/ onopenGranted(s)

SpecBoot == InitBoot /\ [][NextBoot]_vars

(***************************************************************************)
(* Properties of the capture pipeline and the transcript.                  *)
(***************************************************************************)
\* the capture graph the refs currently describe
GraphWired ==
  /\ streamRef # 0
  /\ scriptProcessorRef # 0
  /\ proc[scriptProcessorRef] = "connected"
  /\ sessionRef # 0

\* C11: whenever the state is active (LiveChat) or recording (Transcriber,
\* Chat), streamRef holds a microphone stream, scriptProcessorRef holds a
\* connected processor node and sessionRef holds a backend session.  The
\* state of an unmounted component no longer exists, so it is not constrained.
C11_ActiveImpliesWired == (mounted /\ (isActive \/ isRecording)) => GraphWired

\* the step is an onmessage call of a mounted component
MessageStep == mounted /\ nMsgs' = nMsgs + 1
\* ... that receives a turn boundary, a partial transcript
TurnCompleteStep == MessageStep /\ lastMsg'.tc
DeltaStep == MessageStep /\ ~lastMsg'.tc

\* C12: in LiveChat a turn-complete event appends to the transcript log one
\* turn whose user and model text are the input and output deltas received
\* since the previous turn boundary, in arrival order (the content the interim
\* buffers have accumulated, "Hel" then "lo" giving "Hello"), and leaves both
\* interim buffers empty.
C12_TurnIsConcatenation ==
  [][(comp = "LiveChat" /\ TurnCompleteStep) =>
       /\ transcription' = Append(transcription, currentInterim)
       /\ currentInterim' = EmptyInterim]_vars

\* the text t with the delta d, if the message carries one, at its end
Extended(t, d) == IF d = None THEN t ELSE t \o <<d>>

\* all the text the Transcriber shows: the finalized text followed by the interim text
TranscriberText == finalizedTranscription \o transcriptionText

\* C13: in Transcriber finalizedTranscription followed by the interim
\* transcription is the concatenation, in arrival order, of every input
\* delta received since mount: it starts empty, an onmessage call with an
\* input delta extends it by that delta, and no other step (turn boundary,
\* start, stop, error, closed) changes it.
C13_TextConserved ==
  [][(comp = "Transcriber" /\ mounted) =>
       TranscriberText' = Extended(TranscriberText, IF MessageStep THEN lastMsg'.inp ELSE None)]_vars

\* C14: a partial-text event appends its delta to its own side's buffer: in
\* LiveChat an input delta d takes currentInterim.user from u to u+d, an
\* output delta takes currentInterim.model from v to v+d, the other side and
\* the transcript log stay as they are; in Chat an input delta takes the
\* input text from s to s+d.  Each delta lands at the end of what earlier
\* deltas left, so deltas of one side are applied in arrival order.
C14_DeltaAppends ==
  [][DeltaStep =>
       /\ comp = "LiveChat" =>
            /\ currentInterim'.user = Extended(currentInterim.user, lastMsg'.inp)
            /\ currentInterim'.model = Extended(currentInterim.model, lastMsg'.out)
            /\ transcription' = transcription
       /\ comp = "Chat" => input' = Extended(input, lastMsg'.inp)]_vars

\* LiveChat has received two input deltas and an output delta
C14_Witness ==
  /\ comp = "LiveChat"
  /\ mounted
  /\ currentInterim = [user |-> <<"Hel", "lo">>, model |-> <<"Hel">>]

\* C15: turn closing is atomic with respect to later partial-text events, in
\* LiveChat and in Transcriber: the step that handles a turn boundary leaves
\* the interim buffers empty, so no delta that arrived before it is carried
\* over into the next turn's buffer, and a step that handles a later delta
\* changes neither the transcript log nor the finalized text, so no delta
\* that arrives after the boundary gets into what was emitted for it.
C15_TurnClosingAtomic ==
  [][/\ TurnCompleteStep =>
          /\ comp = "LiveChat" => currentInterim' = EmptyInterim
          /\ comp = "Transcriber" => transcriptionText' = EmptyText
     /\ DeltaStep =>
          /\ comp = "LiveChat" => transcription' = transcription
          /\ comp = "Transcriber" => finalizedTranscription' = finalizedTranscription]_vars

\* LiveChat has closed a turn and a delta has arrived after the boundary
C15_Witness ==
  /\ comp = "LiveChat"
  /\ mounted
  /\ Len(transcription) = 1
  /\ lastMsg.inp = "lo"
  /\ currentInterim = [user |-> <<"lo">>, model |-> EmptyText]

\* the log after the step is the log before it with one turn added at the end
LogExtendedByOne ==
  /\ Len(transcription') = Len(transcription) + 1
  /\ SubSeq(transcription', 1, Len(transcription)) = transcription

\* C16: the LiveChat transcript log is append-only within a session: every
\* step other than an accepted startConversation, which clears it, leaves
\* the log unchanged or extends it by exactly one turn at the end; the turns
\* already in it are not edited, reordered or removed, and stop, error and
\* closed steps never shorten it.
C16_LogAppendOnly ==
  [][comp = "LiveChat" =>
       \/ transcription' = transcription
       \/ LogExtendedByOne
       \/ lastStart' = "accepted" /\ transcription' = << >>]_vars

\* a log of two turns has outlived the teardown of its session
C16_Witness ==
  /\ comp = "LiveChat"
  /\ Len(transcription) = 2
  /\ conn[1] = "closed"
  /\ sessionRef = 0
  /\ ~isActive

\* the step tears the held session down and the component stays mounted
TeardownStep == mounted' /\ sessionRef # 0 /\ sessionRef' = 0

\* C17: a teardown with non-empty interim buffers emits exactly one final
\* turn from them and clears them, whichever path triggered it: in LiveChat
\* the log gets one more turn, the interim user/model text, and currentInterim
\* becomes empty; in Transcriber the interim text is appended once to
\* finalizedTranscription and transcription becomes empty.
C17_TeardownFlushes ==
  [][TeardownStep =>
       /\ (comp = "LiveChat" /\ currentInterim # EmptyInterim) =>
            /\ transcription' = Append(transcription, currentInterim)
            /\ currentInterim' = EmptyInterim
       /\ (comp = "Transcriber" /\ transcriptionText # EmptyText) =>
            /\ finalizedTranscription' = finalizedTranscription \o transcriptionText
            /\ transcriptionText' = EmptyText]_vars

\* C18: an interim buffer is reset to empty exactly when a turn is emitted
\* from it: in LiveChat and Transcriber a step that takes a non-empty interim
\* buffer to empty appends the content of that buffer to the transcript log
\* (to the finalized text) in the same step, and a step that emits a turn
\* leaves the buffers empty.
C18_ResetIffEmitted ==
  [][mounted' =>
       /\ comp = "LiveChat" =>
            /\ (currentInterim # EmptyInterim /\ currentInterim' = EmptyInterim) =>
                 transcription' = Append(transcription, currentInterim)
            /\ Len(transcription') > Len(transcription) => currentInterim' = EmptyInterim
       /\ comp = "Transcriber" =>
            /\ (transcriptionText # EmptyText /\ transcriptionText' = EmptyText) =>
                 finalizedTranscription' = finalizedTranscription \o transcriptionText
            /\ finalizedTranscription' # finalizedTranscription => transcriptionText' = EmptyText]_vars

(***************************************************************************)
(* Properties of the playback schedule.                                    *)
(***************************************************************************)
RECURSIVE SumDur(_)
SumDur(q) == IF q = << >> THEN 0 ELSE Head(q).dur + SumDur(Tail(q))

\* C19: playback never overlaps buffers, also when a chunk arrives while an
\* earlier handler is suspended at the decode await: each buffer starts no
\* earlier than the previous buffer's start plus its duration, buffers are
\* started in arrival order, and as long as no underrun has occurred the
\* cursor nextStartTime is the first start time plus the sum of the
\* durations scheduled so far.
C19_NoOverlap ==
  /\ \A i \in 2..Len(started) : started[i].start >= started[i - 1].start + started[i - 1].dur
  /\ \A i \in 1..Len(started) : started[i].id = i
  /\ (~underrun /\ started # << >>) => nextStartTime = started[1].start + SumDur(started)

\* three buffers scheduled without underrun, one of them for a chunk that
\* arrived while an earlier handler was suspended
C19_Witness ==
  /\ Len(started) = 3
  /\ ~underrun
  /\ \E i \in 1..3 : started[i].behind > 0

\* the cursor after the buffers before the i-th have been scheduled
CursorBefore(i) == IF i = 1 THEN 0 ELSE started[i - 1].start + started[i - 1].dur

\* every buffer started so far was started at max(cursor, context time), which
\* is not before the context time at which it was scheduled, and once
\* every handler has finished the cursor stands at the end of the last buffer
ScheduledAtMax ==
  /\ \A i \in 1..Len(started) :
       /\ started[i].start = Max(CursorBefore(i), started[i].at)
       /\ started[i].start >= started[i].now
  /\ (decoding = << >> /\ started # << >>) =>
       nextStartTime = started[Len(started)].start + started[Len(started)].dur

\* a 0.5 s chunk at context time 0.0 and then a 0.3 s chunk at 0.1
ScenarioB ==
  /\ Len(started) = 2
  /\ decoding = << >>
  /\ started[1].dur = 5 /\ started[1].at = 0
  /\ started[2].dur = 3 /\ started[2].at = 1

\* C20: each decoded buffer is scheduled to start at max(nextStartTime,
\* context time) and the cursor then advances by the buffer's duration, so no
\* buffer is started earlier than the context time at which it is scheduled
\* and the cursor never decreases; a 0.5 s chunk at context time 0.0 followed
\* by a 0.3 s chunk arriving at 0.1 gives second start time 0.5 and cursor 0.8.
C20_ScheduleAtMax ==
  [][/\ nextStartTime' >= nextStartTime
     /\ ScheduledAtMax'
     /\ ScenarioB' => (started'[2].start = 5 /\ nextStartTime' = 8)]_vars

\* scenario B has been played
C20_Witness == ScenarioB /\ started[2].start = 5 /\ nextStartTime = 8

(***************************************************************************)
(* Properties of LiveChat's message handler.                               *)
(***************************************************************************)
\* an onmessage call whose audio payload does not decode
MalformedArrival == nMsgs' = nMsgs + 1 /\ lastAudio' \in Malformed
\* a suspended handler resumes with a rejected decode
FailedResume == Len(decoding') < Len(decoding) /\ ~Head(decoding).ok

\* every buffer started so far was started at the maximum of the end of the
\* buffer started before it and the context time at which its chunk arrived
StartedAsIfAlone ==
  \A i \in 1..Len(started) : started[i].start = Max(CursorBefore(i), started[i].at)

\* C21: a malformed audio chunk (invalid base64, or an odd byte length) is
\* dropped: nothing is scheduled for it, nextStartTime has the value it had
\* before the chunk arrived, the session stays active, and the next
\* well-formed chunk is scheduled normally.
C21_MalformedChunkDropped ==
  [][/\ (MalformedArrival \/ FailedResume) =>
          /\ started' = started
          /\ nextStartTime' = nextStartTime
          /\ isActive' = isActive /\ conn' = conn /\ sessionRef' = sessionRef
     /\ StartedAsIfAlone']_vars

\* C21 as the code has it: a malformed chunk schedules nothing, leaves the
\* session as it is and never advances the cursor by a duration; the only
\* change is that its arrival raises the cursor to the context time when the
\* context time has passed it, which is what the next well-formed chunk's
\* own max would do, so every well-formed chunk is started exactly where it
\* would have been had the malformed chunk not arrived.
C21_MalformedChunkSchedulesNothing ==
  [][/\ (MalformedArrival \/ FailedResume) =>
          /\ started' = started
          /\ isActive' = isActive /\ conn' = conn /\ sessionRef' = sessionRef
     /\ MalformedArrival =>
          nextStartTime' = (IF currentTime > nextStartTime THEN currentTime ELSE nextStartTime)
     /\ FailedResume => nextStartTime' = nextStartTime
     /\ StartedAsIfAlone']_vars

\* an active session has dropped a chunk of odd length and has then started
\* the well-formed chunk that arrived while the dropped one was being decoded
C21_Witness ==
  /\ isActive
  /\ nMsgs = 2
  /\ decoding = << >>
  /\ Len(started) = 1
  /\ started[1].behind = 1

\* C22: playback scheduling and transcript accumulation do not block one
\* another in LiveChat.onmessage: the transcript parts of a message are
\* applied in the step that receives it, whatever its audio payload is and
\* whether or not it decodes, also while an earlier handler is suspended at
\* the decode await; and a well-formed payload is handed to the decoder
\* whatever the transcript parts are, and started when its handler resumes.
C22_AudioAndTranscriptIndependent ==
  [][/\ (MessageStep /\ lastMsg'.tc) =>
          /\ Len(transcription') = Len(transcription) + 1
          /\ currentInterim' = EmptyInterim
     /\ (MessageStep /\ ~lastMsg'.tc) =>
          /\ currentInterim'.user = Extended(currentInterim.user, lastMsg'.inp)
          /\ currentInterim'.model = Extended(currentInterim.model, lastMsg'.out)
          /\ transcription' = transcription
     /\ (MessageStep /\ lastAudio'.kind = "pcm") =>
          /\ Len(decoding') = Len(decoding) + 1
          /\ decoding'[Len(decoding')].ok
     /\ (Len(decoding') < Len(decoding) /\ Head(decoding).ok) =>
          Len(started') = Len(started) + 1]_vars

\* a message with a transcript delta and a payload that does not decode has
\* been received while the handler of an earlier chunk was suspended
C22_Witness ==
  /\ nMsgs = 2
  /\ Len(decoding) = 1
  /\ decoding[1].ok
  /\ lastAudio = BadBase64
  /\ lastMsg.inp = "Hel"
  /\ currentInterim.user = <<"Hel">>

(***************************************************************************)
(* Properties of the outbound frames.                                      *)
(***************************************************************************)
\* the step is an onaudioprocess call
FrameStep == nFrames' = nFrames + 1

InOrder(q) == \A i, j \in 1..Len(q) : i < j => q[i].f < q[j].f

\* the opened event of session s
ResolveStep(s) == pc[s] = "none" /\ pc'[s] # "none"

\* C24: outbound sends wait for the connection handshake and then fire in
\* order: the frames captured while the session promise is pending are sent
\* in the step that resolves it, after the sends already made and in the
\* order of their capture; on every session the sends are made in the order
\* in which the frames were captured, and all of them before the close()
\* asked for by a later stop.
C24_SendsDeferredInOrder ==
  [][\A s \in Sessions :
       /\ ResolveStep(s) =>
            /\ sendLog'[s] = sendLog[s] \o pendSend[s]
            /\ pendSend'[s] = << >>
       /\ ~ResolveStep(s) => Len(sendLog'[s]) >= Len(sendLog[s])
       /\ InOrder(sendLog'[s] \o pendSend'[s])
       /\ \A i \in 1..Len(sendLog'[s]) : sendLog'[s][i].waited => ~sendLog'[s][i].late
       /\ closeCalls'[s] > closeCalls[s] =>
            \A i \in 1..Len(pendSend[s]) : pendSend[s][i] = sendLog'[s][Len(sendLog[s]) + i]]_vars

\* two frames captured while the promise was pending have been sent, in their
\* order, and the close asked for by the stop that followed has been made
C24_Witness ==
  \E s \in Sessions :
    /\ Len(sendLog[s]) = 2
    /\ sendLog[s][1].waited /\ sendLog[s][2].waited
    /\ sendLog[s][1].f < sendLog[s][2].f
    /\ closeCalls[s] > 0

(***************************************************************************)
(* Properties of resource ownership and of failure handling.               *)
(***************************************************************************)
\* the backend stream of session s exists, has not ended and has not been
\* asked to close; its microphone is live
StreamUp(s) == conn[s] \in {"connecting", "open"} /\ closeReq[s] = 0
MicLive(s) == mic[s] = "live"

\* C25: the microphone stream, the capture graph and the network session
\* are exclusively owned and released together: at most one backend stream
\* is up and at most one microphone stream is live, every backend stream
\* that is up and every live microphone stream is the one the refs hold,
\* and in an idle state (not connecting, not active, not recording, no start
\* in flight) no ref is set and nothing is up, live or connected.
C25_ExclusiveOwnership ==
  mounted =>
    /\ Cardinality({s \in Sessions : StreamUp(s)}) <= 1
    /\ Cardinality({s \in Sessions : MicLive(s)}) <= 1
    /\ \A s \in Sessions : StreamUp(s) => sessionRef = s
    /\ \A s \in Sessions : MicLive(s) => streamRef = s
    /\ (Idle /\ ~StartInFlight) =>
         /\ sessionRef = 0 /\ streamRef = 0 /\ scriptProcessorRef = 0
         /\ \A s \in Sessions : ~StreamUp(s) /\ ~MicLive(s) /\ proc[s] # "connected"

\* a start request issued now would pass the guard of the mounted component
StartWouldBeAccepted ==
  CASE comp = "LiveChat" -> ~startConversationGuard
    [] comp = "Transcriber" -> ~startTranscriptionGuard
    [] comp = "Chat" -> ~isRecording

\* session s has failed: the backend reported an error or closed the stream,
\* or its microphone request was rejected
Failed(s) == conn[s] \in {"errored", "closed"} \/ pc[s] = "failed"

\* C26: there is no automatic retry.  No microphone is acquired for a session
\* that has already failed, and right after the failure of the current
\* session (error, remote close, rejected microphone) an explicit start
\* request of the user would be accepted.
C26_NoRetryAndRestartAccepted ==
  [][\A s \in Sessions :
       /\ (GrantedStep(s) => ~Failed(s))
       /\ ((mounted /\ sessionRef = s /\ (ErrorStep(s) \/ ClosedStep(s) \/ DeniedStep(s)))
             => StartWouldBeAccepted')]_vars

\* C27: no failure of the pipeline escapes as an unhandled rejection, and
\* after a failure of the current session the component is idle: the promise
\* of no session's onopen is rejected, and a mounted component whose current
\* session failed shows the idle state.
C27_FailuresHandledLocally ==
  /\ \A s \in Sessions : pc[s] # "failed"
  /\ (mounted /\ sessionRef # 0 /\ Failed(sessionRef)) => Idle

(***************************************************************************)
(* Properties of the stored chat history.                                  *)
(***************************************************************************)
\* the localStorage key that belongs to user u, and the item stored under it
KeyOf(u) == <<"chatgps-chat-history-", u>>
Stored(u) == localStore[KeyOf(u)]

\* the list a Chat of user u would start with if it were mounted now
WouldStartWith(u) == IF Stored(u).present THEN Parse(Stored(u)) ELSE << >>

\* C28: while a Chat of user u is on screen, and its save effect has run, the
\* item stored under u's key is the serialization of the current message
\* list, and a Chat mounted for u from that item starts with exactly this list.
C28_StoreMirrorsMessages ==
  chatInst # 0 =>
    /\ Stored(currentUser) = Stringify(messages)
    /\ WouldStartWith(currentUser) = messages

\* a Chat mounted later (after a reload) shows a question and a response
\* without text that an earlier Chat stored
C28_Witness ==
  /\ chatInst > 1
  /\ lastOp = "reload"
  /\ Len(messages) = 2
  /\ messages[1].text = Text(<<"2+2?">>)
  /\ messages[2].text = Undefined

\* the user a step belongs to: the one logged in before it, or the one it logs in
Actor == IF currentUser # NoUser THEN currentUser ELSE currentUser'

\* a new Chat instance appears on screen in this step
MountStep == chatInst' # 0 /\ chatInst' # chatInst

\* C29: the stored history of a user changes only in steps of that user, and
\* a Chat that is mounted shows the list last stored under its own user's key
\* (nothing when that key is not there).
C29_KeysIsolated ==
  [][/\ \A u \in Users : Stored(u)' # Stored(u) => Actor = u
     /\ MountStep => messages' = WouldStartWith(currentUser')]_vars

\* teacher chats while the history student left behind is still stored
C29_Witness ==
  /\ currentUser = "teacher"
  /\ chatInst # 0
  /\ Len(messages) = 1
  /\ Stored("student").present
  /\ Len(Stored("student").value) = 2
  /\ Stored("teacher") = Stringify(messages)

\* C30: a confirmed logout removes the history key of the user and the
\* stored user, and a key that is not there is created only by a Chat of its
\* user that is on screen; a confirmed clear empties the list and the stored
\* history; a declined confirmation changes neither the list, the store nor
\* the user; and a stored history is removed or shortened by no other step.
C30_ClearedOnlyOnRequest ==
  [][/\ lastOp' = "logout" =>
          /\ ~localStore'[KeyOf(currentUser)].present
          /\ currentUser' = NoUser /\ sessionUser' = NoUser /\ chatInst' = 0
     /\ \A u \in Users :
          (~Stored(u).present /\ Stored(u)'.present) => (currentUser' = u /\ chatInst' # 0)
     /\ lastOp' = "clear" => (messages' = << >> /\ Stored(currentUser)' = Stringify(<< >>))
     /\ lastOp' \in {"logoutDeclined", "clearDeclined"} =>
          UNCHANGED <<messages, localStore, currentUser, sessionUser>>
     /\ \A u \in Users :
          (Stored(u).present /\ (~Stored(u)'.present
                                  \/ Len(Stored(u)'.value) < Len(Stored(u).value)))
            => lastOp' \in {"logout", "clear"}]_vars

\* the response to a question arrives after the user who asked has logged
\* out: nothing is stored
C30_Witness ==
  /\ lastOp = "reply"
  /\ currentUser = NoUser
  /\ nSends > 0
  /\ \A u \in Users : ~Stored(u).present

(***************************************************************************)
(* Properties of startup, late events, the chat log and the analyzer.      *)
(***************************************************************************)
\* C31: without the credential no feature calls the backend: no text
\* generation and no image or video analysis request is issued, no live
\* stream is opened, and no voice feature is connecting, active or recording.
C31_NoCredentialNoBackend ==
  ~apiKey =>
    /\ nSends = 0 /\ inflight = {}
    /\ nCalls = 0
    /\ nSess = 0 /\ \A s \in Sessions : conn[s] = "none"
    /\ ~isConnecting /\ ~isActive /\ ~isRecording

\* the page was loaded without the credential and the evaluation of its
\* modules has thrown
C31_Witness == ~apiKey /\ app = "failed"

\* startConversation passed its guard and the client or the output context
\* constructor threw: the start was accepted and no session was created
StartThrewStep == lastStart' = "accepted" /\ nSess' = nSess

\* the connect promise of session s rejected
RejectedStep(s) == conn[s] = "connecting" /\ conn'[s] = "rejected"

\* C32: after a failure while the stream is being opened (a constructor
\* throws inside startConversation, or the connect promise rejects before
\* the opened callback) the mounted LiveChat is idle: isConnecting and
\* isActive are false and sessionRef holds no session.
C32_OpenFailureReturnsToIdle ==
  [][(mounted /\ (StartThrewStep \/ \E s \in Sessions : sessionRef = s /\ RejectedStep(s)))
       => (~isConnecting' /\ ~isActive' /\ sessionRef' = 0)]_vars

\* stop has run for session s: its close has been requested
Stopped(s) == closeReq[s] > 0

\* an onmessage callback runs, and every stream that can still deliver a
\* message belongs to a session that has been stopped
LateMessageStep == nMsgs' # nMsgs /\ \A s \in Sessions : conn[s] = "open" => Stopped(s)

\* C33: events of a session that has been stopped change nothing: a late
\* message changes neither the interim buffers, the transcript log, the
\* Transcriber texts nor Chat's input, and a late error or closed event of a
\* stopped session leaves the refs, the resources and the close requests of
\* a session started afterwards alone.
C33_LateEventsIgnored ==
  [][/\ LateMessageStep => UNCHANGED textVars
     /\ \A s \in Sessions :
          (Stopped(s) /\ sessionRef # 0 /\ sessionRef # s /\ (ErrorStep(s) \/ ClosedStep(s)))
            => UNCHANGED <<refVars, resVars, uiVars, closeReq>>]_vars

\* the steps of handleSend: the call up to the await, and the resumption when
\* generateText has settled
SendStep == lastOp' \in {"send", "sendIgnored"}
SettleStep == lastOp' \in {"reply", "failure"}

\* a request of the Chat on screen has not settled
Pending == \E r \in inflight : r.inst = chatInst

\* C34: a send with a blank input or while a request is loading changes
\* nothing; any other send appends one user message with the typed text,
\* clears the input and sets isLoading; when the call settles one model
\* message, the response text or the apology, is appended and isLoading is
\* false; and isLoading is true exactly while a request is pending.
C34_SendAppendsAndSettles ==
  [][/\ (SendStep /\ (IsBlank(input) \/ isLoading))
          => UNCHANGED <<messages, input, isLoading, inflight>>
     /\ (SendStep /\ ~(IsBlank(input) \/ isLoading))
          => /\ messages' = Append(messages, [role |-> "user", text |-> Text(input)])
             /\ input' = EmptyText
             /\ isLoading'
     /\ SettleStep
          => /\ Len(messages') = Len(messages) + 1
             /\ SubSeq(messages', 1, Len(messages)) = messages
             /\ messages'[Len(messages')].role = "model"
             /\ messages'[Len(messages')].text \in ResponseTexts \cup {Apology}
             /\ lastOp' = "failure" => messages'[Len(messages')].text = Apology
             /\ ~isLoading'
     /\ chatInst' # 0 => (isLoading' <=> Pending')]_vars

\* the list shown alternates: a user message at every odd position and a
\* model message at every even one
Alternating(m) ==
  \A i \in 1..Len(m) : m[i].role = IF i % 2 = 1 THEN "user" ELSE "model"

\* C35: the message list of the Chat on screen alternates between user and
\* model messages, so that every model message directly follows the user
\* message it answers, and the history of every pending request is the list
\* as it was before the user message of that request was appended.
C35_LogAlternates ==
  /\ chatInst # 0 => Alternating(messages)
  /\ \A r \in inflight : Alternating(r.history) /\ Len(r.history) % 2 = 0

\* the steps of handleAnalyze
AnalyzeStep == lastOp' \in {"analyze", "analyzeInvalid"}

\* an accepted image or video request that has set neither result nor error
Unsettled(j) == analysis[j].kind \in {"image", "video"} /\ ~analysis[j].set

\* C36: handleAnalyze without a file or with a blank prompt issues no backend
\* call and sets the validation error; while an accepted image or video
\* request has set neither result nor error, isLoading is true; and every
\* step in which the analysis fails leaves error set and isLoading false.
C36_AnalyzeLoadsUntilSettled ==
  [][/\ (AnalyzeStep /\ (file = "none" \/ IsBlank(prompt)))
          => (nCalls' = nCalls /\ analysis' = analysis /\ error' = ValidationError)
     /\ \A j \in 1..Len(analysis') : Unsettled(j)' => isLoadingMedia'
     /\ lastOp' = "failure" => (error' # "" /\ ~isLoadingMedia')]_vars

====
